---- MODULE Spec2Model ----
(***************************************************************************)
(* Session / authorization resolution of the HOA violation tracker:        *)
(* AuthProvider of src/contexts/AuthContextInternal.ts.                     *)
(*                                                                         *)
(* The React state of the provider (user, loading, profileLoadError,       *)
(* authInitialized), the browser's localStorage entry                      *)
(* 'currentAssociationId', and the position of every asynchronous          *)
(* function of the provider (initializeAuth, loadUserProfile, refetchUser, *)
(* clearAuthState) are the state.  Every await is an interleaving point:   *)
(* one action runs from one await to the next.  The answers of the         *)
(* provider (supabase) are inputs, drawn from small sets.                  *)
(*                                                                         *)
(* The create-user edge function (supabase/functions/create-user) is a     *)
(* second state machine, with a specification of its own: the identities   *)
(* and profiles the provider holds and the position of the handler.        *)
(***************************************************************************)
EXTENDS Integers, Sequences, FiniteSets, TLC

\* ------------------------------------------------------------------------
\* Bounds of the model
\* ------------------------------------------------------------------------

\* longest membership list the provider returns
MaxMemberships == 2

\* longest argument list hasAnyPermission is called with
MaxPermissionArgs == 2

\* ------------------------------------------------------------------------
\* Values
\* ------------------------------------------------------------------------

\* JavaScript null for a string-valued slot
Null == "null"

\* JavaScript undefined (associations[0] of an empty array)
Undefined == [undefined |-> TRUE]

\* user === null
NoUser == [isNull |-> TRUE]

CURRENT_ASSOCIATION_KEY == "currentAssociationId"

\* the timers of loadUserProfile, in milliseconds
QUERY_TIMEOUT_MS == 5000

ABSOLUTE_TIMEOUT_MS == 15000

AssociationIds == {"A", "B"}

Association(a) == [id |-> a]

Permissions == {"manage_users", "view_violations", "manage_roles"}

\* the roles that exist at the provider: a system role (no owning
\* association) and a role owned by association A
RoleSystem ==
    [id |-> "r-system", is_system_role |-> TRUE, association_id |-> Null,
     permissions |-> <<"view_violations">>]

RoleA ==
    [id |-> "r-a", is_system_role |-> FALSE, association_id |-> "A",
     permissions |-> <<"manage_users", "view_violations">>]

AllRoles == <<RoleSystem, RoleA>>

\* the row of user_profiles that belongs to the signed-in identity
ProfileRow == [user_id |-> "u"]

\* the messages loadUserProfile and initializeAuth put in profileLoadError
MsgAbsolute == "Authentication is taking too long. Please refresh the page and try again."

MsgNoProfile == "No user profile found. Please sign up or contact support."

MsgProfileFailed == "Failed to load user profile. Please try again."

MsgAssociationsFailed == "Failed to load your associations. Please try again."

MsgNoAssociations == "No associations found for your account. Contact support."

MsgTimeout == "Connection timeout. This may be due to slow internet or server issues. Please check your connection and try again."

MsgNetwork == "Network connection error. Please check your internet connection and try again."

MsgGeneric == "Failed to load user profile. Please try refreshing the page."

MsgStartupTimeout == "Connection timeout during startup. Please refresh the page."

MsgRefetch == "Unable to refresh user data."

\* ------------------------------------------------------------------------
\* Array helpers, computed as JavaScript computes them
\* ------------------------------------------------------------------------

\* array.includes(x)
Includes(s, x) == \E i \in 1..Len(s) : s[i] = x

\* array.find(pred): the first element that satisfies pred, else undefined
RECURSIVE FindById(_, _)
FindById(s, id) ==
    IF s = <<>> THEN Undefined
    ELSE IF Head(s).id = id THEN Head(s)
    ELSE FindById(Tail(s), id)

\* roles.flatMap(role => role.permissions)
RECURSIVE FlatMapPermissions(_)
FlatMapPermissions(roles) ==
    IF roles = <<>> THEN <<>>
    ELSE Head(roles).permissions \o FlatMapPermissions(Tail(roles))

\* faulty variant of Dedupe: without new Set(...), the flattened list is
\* stored as it is
DedupeNone(s) == s

\* Array.from(new Set(s)): first occurrences, in order
RECURSIVE Dedupe(_)
Dedupe(s) ==
    IF s = <<>> THEN <<>>
    ELSE LET rest == Dedupe(SubSeq(s, 1, Len(s) - 1))
             x == s[Len(s)]
         IN IF Includes(rest, x) THEN rest ELSE Append(rest, x)

\* memberships.map(m => m.associations)
RECURSIVE MapAssociations(_)
MapAssociations(memberships) ==
    IF memberships = <<>> THEN <<>>
    ELSE <<Association(Head(memberships))>> \o MapAssociations(Tail(memberships))

\* associations[0]
FirstOf(s) == IF Len(s) > 0 THEN s[1] ELSE Undefined

\* ------------------------------------------------------------------------
\* Inputs: what the provider can answer
\* ------------------------------------------------------------------------

\* the association ids of the rows of an active-membership answer, in the
\* order returned; the same association may occur twice (no unique
\* constraint is assumed)
MembershipLists ==
    UNION {[1..n -> AssociationIds] : n \in 1..MaxMemberships}

\* the rows of a role-assignment answer: any selection of the roles
RECURSIVE SelectRoles(_, _)
SelectRoles(roles, keep) ==
    IF roles = <<>> THEN <<>>
    ELSE (IF Head(roles).id \in keep THEN <<Head(roles)>> ELSE <<>>)
         \o SelectRoles(Tail(roles), keep)

RoleLists ==
    {SelectRoles(AllRoles, keep) :
        keep \in SUBSET {AllRoles[i].id : i \in 1..Len(AllRoles)}}



\* error.message?.includes(word), for the messages that occur
MessageIncludes(message, word) ==
    CASE word = "timeout" ->
           message \in {"Profile query timeout", "Associations query timeout",
                        "Roles query timeout", "Session check timeout"}
      [] word = "fetch" -> message \in {"Failed to fetch"}
      [] word = "network" -> FALSE
      [] OTHER -> FALSE

\* messages of the errors a provider call can reject with: the browser's
\* fetch failure (Chrome: 'Failed to fetch', Safari: 'Load failed')
RejectMessages == {"Failed to fetch", "Load failed"}

\* ------------------------------------------------------------------------
\* State
\* ------------------------------------------------------------------------

VARIABLES
    user,              \* useState<AuthUser | null>
    loading,           \* useState(true)
    profileLoadError,  \* useState<string | null>
    authInitialized,   \* useState(false)
    localStorage,      \* localStorage[CURRENT_ASSOCIATION_KEY], Null if absent
    initPc,            \* position of initializeAuth
    pass,              \* position and locals of the running loadUserProfile
    refetchPending,    \* refetchUser awaits supabase.auth.getUser()
    signOutPending,    \* clearAuthState awaits supabase.auth.signOut()
    listener,          \* the onAuthStateChange subscription of the effect
    signOutFrom,       \* history: the state clearAuthState was called in,
                       \* while it runs ("none" otherwise)
    last,              \* the operation that ran last and what its caller saw
    lastSwitch,        \* history: id of the last switch that went through
                       \* since localStorage was last cleared
    authUsers,         \* create-user: emails of the identities the provider holds
    userProfiles,      \* create-user: emails that have a profile and membership
    handler,           \* create-user: position and locals of the handler
    violationRows,     \* the rows of the violations table at the provider
    violations,        \* useViolations: useState<Violation[]>([])
    violationCalls,    \* useViolations: its provider calls in flight
    membershipRows,    \* rows of user_association_memberships of one identity,
                       \* counted per association
    membershipOps,     \* the running addUserToAssociation and
                       \* handleAssociationChange calls
    roleRows,          \* the rows of the roles table at the provider
    roleCalls,         \* useRoles: its role writes in flight
    roleLast,          \* useRoles: what the last call of createRole,
                       \* updateRole or deleteRole came to
    signInPending,     \* signIn awaits supabase.auth.signInWithPassword
    signUpOp           \* position, locals and result of signUp

\* the state of the AuthProvider in the browser
clientVars ==
    <<user, loading, profileLoadError, authInitialized, localStorage,
      initPc, pass, refetchPending, signOutPending, signOutFrom, last,
      listener,
      lastSwitch>>

\* the state of the create-user edge function and of the provider behind it
serverVars == <<authUsers, userProfiles, handler>>

\* the state of useViolations and of the violations table
violationVars == <<violationRows, violations, violationCalls>>

\* the state of the membership administration
membershipVars == <<membershipRows, membershipOps>>

\* the state of useRoles and of the roles table
roleVars == <<roleRows, roleCalls, roleLast>>

\* the calls of the sign-in form
formVars == <<signInPending, signUpOp>>

vars ==
    <<clientVars, serverVars, violationVars, membershipVars, roleVars,
      formVars>>

\* The callback the effect has passed to onAuthStateChange, with the value
\* of authInitialized of the render the effect ran in.  The effect depends
\* on authInitialized: when it changes, the cleanup unsubscribes, and the
\* effect that runs then returns at once if authInitialized is true.
\* No callback is subscribed:
NoListener == [subscribed |-> FALSE, authInitialized |-> FALSE]

\* a loadUserProfile call that is not running
\* stageAt: the time since the entry of loadUserProfile at which the fetch it
\* is waiting for was issued (a fetch takes no time, or as long as its timer)
IdlePass ==
    [pc |-> "idle", caller |-> "none", stageAt |-> 0, absoluteArmed |-> FALSE,
     profile |-> Undefined, associations |-> <<>>,
     currentAssociation |-> Undefined, stable |-> TRUE]

InFlight == pass.pc \in {"profile", "associations", "roles"}

\* the handler of the edge function between two requests
IdleHandler ==
    [pc |-> "idle", body |-> Undefined, created |-> Null, status |-> 0]

\* no request has reached the edge function, the provider holds no identity
ServerInit ==
    /\ authUsers = {}
    /\ userProfiles = {}
    /\ handler = IdleHandler

\* the violations that exist when the page is opened: one of each
\* association; the hook has loaded nothing yet
ViolationsInit ==
    /\ violationRows = {[id |-> 1, association_id |-> "A", edited |-> FALSE],
                        [id |-> 2, association_id |-> "B", edited |-> FALSE]}
    /\ violations = <<>>
    /\ violationCalls = {}

\* how many membership calls run at a time
MaxMembershipOps == 2

\* how many rows a pair of identity and association is followed up to
MaxMembershipRows == 3

\* a membership call that is not running
IdleOp == [pc |-> "idle", fn |-> "none", associationId |-> Null]

\* the identity has no membership yet, no call is running
MembershipsInit ==
    /\ membershipRows = [a \in AssociationIds |-> 0]
    /\ membershipOps = [p \in 1..MaxMembershipOps |-> IdleOp]

\* a role owned by association A that lets its holder administer roles
RoleManagerA ==
    [id |-> "r-roles-a", is_system_role |-> FALSE, association_id |-> "A",
     permissions |-> <<"manage_roles">>]

\* a role owned by association B
RoleB ==
    [id |-> "r-b", is_system_role |-> FALSE, association_id |-> "B",
     permissions |-> <<"view_violations">>]

\* what the roles table keeps of a role
RoleRow(role) ==
    [id |-> role.id, association_id |-> role.association_id,
     is_system_role |-> role.is_system_role, edited |-> FALSE]

\* the roles table holds the system role and a role of each association;
\* useRoles has sent nothing
RolesInit ==
    /\ roleRows = {RoleRow(RoleSystem), RoleRow(RoleA), RoleRow(RoleB)}
    /\ roleCalls = {}
    /\ roleLast = [op |-> "none"]

\* signUp is not running and has returned nothing
IdleSignUp == [pc |-> "idle", email |-> Null, created |-> Null, result |-> "none"]

\* the form has called neither signIn nor signUp
FormInit ==
    /\ signInPending = FALSE
    /\ signUpOp = IdleSignUp

\* const [user, setUser] = useState(null) etc.; localStorage is whatever an
\* earlier visit left behind
Init ==
    /\ ServerInit
    /\ ViolationsInit
    /\ MembershipsInit
    /\ RolesInit
    /\ FormInit
    /\ user = NoUser
    /\ loading = TRUE
    /\ profileLoadError = Null
    /\ authInitialized = FALSE
    /\ localStorage \in AssociationIds \cup {Null}
    /\ initPc = "uninitialized"
    /\ pass = IdlePass
    /\ refetchPending = FALSE
    /\ signOutPending = FALSE
    /\ signOutFrom = "none"
    /\ listener = NoListener
    /\ last = [op |-> "construct"]
    /\ lastSwitch = Null

\* ------------------------------------------------------------------------
\* Permission evaluation
\* ------------------------------------------------------------------------

\* faulty variant of hasPermission: without the guard "if (!user) return
\* false", user.roles is read of null
hasPermissionNoGuard(u, permission) ==
    IF u = NoUser THEN "TypeError"
    ELSE IF Includes(FlatMapPermissions(SelectSeq(u.roles,
                LAMBDA role : role.is_system_role
                              \/ role.association_id = u.currentAssociation.id)),
                     permission)
         THEN "true" ELSE "false"

\* faulty variant of hasPermission: the roles are not filtered by the
\* current association
hasPermissionAllRoles(u, permission) ==
    IF u = NoUser THEN "false"
    ELSE IF Includes(FlatMapPermissions(u.roles), permission)
         THEN "true" ELSE "false"

\* hasPermission as a JavaScript evaluation: "true", "false", or the
\* TypeError of reading .id of an undefined currentAssociation
hasPermissionResult(u, permission) ==
    IF u = NoUser THEN "false"
    ELSE IF /\ u.currentAssociation = Undefined
            /\ \E i \in 1..Len(u.roles) : ~u.roles[i].is_system_role
         THEN "TypeError"
    ELSE LET currentAssociationRoles ==
                 SelectSeq(u.roles,
                     LAMBDA role : role.is_system_role
                                   \/ role.association_id = u.currentAssociation.id)
             permissions == FlatMapPermissions(currentAssociationRoles)
         IN IF Includes(permissions, permission) THEN "true" ELSE "false"

\* faulty variant of hasAnyPermission: only the first permission is looked at
hasAnyPermissionFirst(u, permissions) ==
    IF permissions = <<>> THEN "false"
    ELSE hasPermissionResult(u, Head(permissions))

\* permissions.some(permission => hasPermission(permission))
RECURSIVE hasAnyPermissionResult(_, _)
hasAnyPermissionResult(u, permissions) ==
    IF permissions = <<>> THEN "false"
    ELSE LET r == hasPermissionResult(u, Head(permissions))
         IN IF r = "false" THEN hasAnyPermissionResult(u, Tail(permissions))
            ELSE r

hasPermission(permission) == hasPermissionResult(user, permission) = "true"

hasAnyPermission(permissions) == hasAnyPermissionResult(user, permissions) = "true"

\* ------------------------------------------------------------------------
\* loadUserProfile
\* ------------------------------------------------------------------------

\* what every step that does not touch them leaves alone
Others ==
    <<initPc, refetchPending, signOutPending, signOutFrom, localStorage,
      listener,
      lastSwitch>>

\* the caller's continuation once its await of loadUserProfile returns:
\* initializeAuth goes on to setAuthInitialized(true), refetchUser is done
Returned ==
    IF pass.caller = "init"
    THEN authInitialized' = TRUE /\ initPc' = "done" /\ listener' = NoListener
    ELSE UNCHANGED <<authInitialized, initPc, listener>>

\* entry of loadUserProfile up to its first await
loadUserProfile(c) ==
    /\ loading' = TRUE
    /\ profileLoadError' = Null
    /\ pass' = [IdlePass EXCEPT !.pc = "profile", !.caller = c,
                                !.absoluteArmed = TRUE]

\* what a finished loadUserProfile leaves to be seen: how it ended, at which
\* fetch, on which answer of that fetch (and with how many role rows), and
\* whether localStorage still is as the pass had read it
PassOutcome(outcome, answer, rows) ==
    [op |-> "loadUserProfile", outcome |-> outcome, stage |-> pass.pc,
     answer |-> answer, rows |-> rows, stable |-> pass.stable]

\* an early return or the catch block: clearTimeout(absoluteTimeout),
\* setLoading(false), setProfileLoadError(message)
EndPass(outcome, answer, message) ==
    /\ pass' = IdlePass
    /\ loading' = FALSE
    /\ profileLoadError' = message
    /\ last' = PassOutcome(outcome, answer, 0)
    /\ Returned
    /\ UNCHANGED <<user, refetchPending, signOutPending, signOutFrom,
                   localStorage, lastSwitch>>

\* catch (error) of loadUserProfile
CatchMessage(message) ==
    IF MessageIncludes(message, "timeout") THEN MsgTimeout
    ELSE IF MessageIncludes(message, "network") \/ MessageIncludes(message, "fetch")
         THEN MsgNetwork
    ELSE MsgGeneric

Catch(answer, message) ==
    EndPass(IF MessageIncludes(message, "timeout") THEN "timeout" ELSE "failed",
            answer, CatchMessage(message))

\* the time at which the next fetch is issued: the answer of this one came
\* at once, or (late) as its 5 s timer was running out
NextStageAt(late) == pass.stageAt + (IF late THEN QUERY_TIMEOUT_MS ELSE 0)

\* faulty variant of ProfileError: without the return, the function goes on
\* to the membership query after it has reported the error
ProfileErrorGoesOn(code) ==
    /\ pass.pc = "profile"
    /\ loading' = FALSE
    /\ profileLoadError' = (IF code = "PGRST116" THEN MsgNoProfile
                            ELSE MsgProfileFailed)
    /\ pass' = [pass EXCEPT !.pc = "associations", !.absoluteArmed = FALSE]
    /\ last' = [op |-> "profileError"]
    /\ UNCHANGED <<user, authInitialized>>
    /\ UNCHANGED Others

\* the profile query answers with an error result
ProfileError(code) ==
    /\ pass.pc = "profile"
    /\ EndPass(IF code = "PGRST116" THEN "profile_missing" ELSE "failed", "error",
               IF code = "PGRST116" THEN MsgNoProfile ELSE MsgProfileFailed)

\* faulty variant of ProfileNoData: a missing row is reported like a failed
\* fetch
ProfileNoDataAsFailure ==
    /\ pass.pc = "profile"
    /\ EndPass("profile_missing", "no_data", MsgProfileFailed)

\* the profile query answers without error and without data
ProfileNoData ==
    /\ pass.pc = "profile"
    /\ EndPass("profile_missing", "no_data", MsgNoProfile)

\* the profile query rejects
ProfileRejected(message) ==
    /\ pass.pc = "profile"
    /\ Catch("reject", message)

\* faulty variant of ProfileTimeout: the timer only reports, it is not raced
\* against the query, and the pass keeps waiting for the answer
ProfileTimeoutKeepsWaiting ==
    /\ pass.pc = "profile"
    /\ profileLoadError' = MsgTimeout
    /\ last' = [op |-> "profileTimeout"]
    /\ UNCHANGED <<user, loading, authInitialized, pass>>
    /\ UNCHANGED Others

\* faulty variant of ProfileTimeout: the timer rejects with an error whose
\* message does not name a timeout
ProfileTimeoutUnnamed ==
    /\ pass.pc = "profile"
    /\ EndPass("failed", "timeout", CatchMessage("Load failed"))

\* setTimeout(() => reject(new Error('Profile query timeout')), 5000)
ProfileTimeout ==
    /\ pass.pc = "profile"
    /\ Catch("timeout", "Profile query timeout")

\* the profile query answers with a row: go on to the membership query
ProfileLoaded(late) ==
    /\ pass.pc = "profile"
    /\ pass' = [pass EXCEPT !.pc = "associations",
                            !.stageAt = NextStageAt(late),
                            !.profile = ProfileRow]
    /\ last' = [op |-> "profileLoaded"]
    /\ UNCHANGED <<user, loading, profileLoadError, authInitialized>>
    /\ UNCHANGED Others

AssociationsError ==
    /\ pass.pc = "associations"
    /\ EndPass("failed", "error", MsgAssociationsFailed)

\* faulty variant of AssociationsEmpty: without the check of
\* memberships.length, the pass goes on with an empty list
AssociationsEmptyGoesOn ==
    /\ pass.pc = "associations"
    /\ pass' = [pass EXCEPT !.pc = "roles", !.associations = <<>>,
                            !.currentAssociation = Undefined]
    /\ last' = [op |-> "associationsLoaded"]
    /\ UNCHANGED <<user, loading, profileLoadError, authInitialized>>
    /\ UNCHANGED Others

\* data is null or an empty array
AssociationsEmpty ==
    /\ pass.pc = "associations"
    /\ EndPass("tenant_missing", "no_data", MsgNoAssociations)

AssociationsRejected(message) ==
    /\ pass.pc = "associations"
    /\ Catch("reject", message)

AssociationsTimeout ==
    /\ pass.pc = "associations"
    /\ Catch("timeout", "Associations query timeout")

\* faulty variant of DetermineCurrentAssociation: the stored id is ignored
CurrentAssociationFirst(associations, storedAssociationId) ==
    FirstOf(associations)

\* "Determine current association": the first one, unless the stored id
\* names one of them
DetermineCurrentAssociation(associations, storedAssociationId) ==
    LET first == FirstOf(associations)
    IN IF storedAssociationId # Null
       THEN LET foundAssociation == FindById(associations, storedAssociationId)
            IN IF foundAssociation # Undefined THEN foundAssociation ELSE first
       ELSE first

\* the membership query answers with rows: extract the associations, read
\* the stored id, pick the current association, go on to the role query
AssociationsLoaded(memberships, late) ==
    /\ pass.pc = "associations"
    /\ LET associations == MapAssociations(memberships)
           storedAssociationId == localStorage
       IN pass' = [pass EXCEPT
             !.pc = "roles",
             !.stageAt = NextStageAt(late),
             !.associations = associations,
             !.stable = TRUE,
             !.currentAssociation =
                 DetermineCurrentAssociation(associations, storedAssociationId)]
    /\ last' = [op |-> "associationsLoaded"]
    /\ UNCHANGED <<user, loading, profileLoadError, authInitialized>>
    /\ UNCHANGED Others


\* the tail of the try block: flatten the permissions, build the AuthUser,
\* clearTimeout(absoluteTimeout), setUser, setProfileLoadError(null),
\* setLoading(false)
FinishPass(roles, answer) ==
    /\ user' = [profile |-> pass.profile,
                associations |-> pass.associations,
                currentAssociation |-> pass.currentAssociation,
                roles |-> roles,
                permissions |-> Dedupe(FlatMapPermissions(roles))]
    /\ profileLoadError' = Null
    /\ loading' = FALSE
    /\ pass' = IdlePass
    /\ last' = PassOutcome("ready", answer, Len(roles))
    /\ Returned
    /\ UNCHANGED <<refetchPending, signOutPending, signOutFrom, localStorage,
                   lastSwitch>>

\* faulty variant of RolesLoaded: an empty role list is treated like an
\* empty membership list
RolesLoadedStrict(roles) ==
    /\ pass.pc = "roles"
    /\ IF roles = <<>>
       THEN EndPass("failed", "rows", MsgGeneric)
       ELSE FinishPass(roles, "rows")

\* the role query answers with rows (possibly none)
RolesLoaded(roles) ==
    /\ pass.pc = "roles"
    /\ FinishPass(roles, "rows")

\* faulty variant of RolesFailed: without the inner try, the failure
\* reaches the catch block of loadUserProfile
RolesFailedFatal(how) ==
    /\ pass.pc = "roles"
    /\ Catch(how, "Failed to fetch")

\* the role query answers with an error result ("error"), answers without
\* data ("no_data") or rejects ("reject"): roles stays []
RolesFailed(how) ==
    /\ pass.pc = "roles"
    /\ FinishPass(<<>>, how)

\* setTimeout(() => reject(new Error('Roles query timeout')), 5000), caught
\* by the inner try
RolesTimeout ==
    /\ pass.pc = "roles"
    /\ FinishPass(<<>>, "timeout")

\* the 15 s timer set at the entry of loadUserProfile fires: the fetch the
\* pass is waiting for has not been answered, and the timer of that fetch
\* does not run out before the 15 s are over; the pass itself goes on
AbsoluteTimeout ==
    /\ InFlight
    /\ pass.absoluteArmed
    /\ pass.stageAt + QUERY_TIMEOUT_MS >= ABSOLUTE_TIMEOUT_MS
    /\ loading' = FALSE
    /\ profileLoadError' = MsgAbsolute
    /\ pass' = [pass EXCEPT !.absoluteArmed = FALSE]
    /\ last' = [op |-> "absoluteTimeout"]
    /\ UNCHANGED <<user, authInitialized>>
    /\ UNCHANGED Others

\* ------------------------------------------------------------------------
\* initializeAuth
\* ------------------------------------------------------------------------

\* the effect runs after the first render: supabase.auth.getSession().
\* The 10 s initTimeout set here is cleared as soon as the race of
\* getSession against the 8 s 'Session check timeout' is decided, which is
\* before it is due: its callback never runs and has no action.
initializeAuth ==
    /\ initPc = "uninitialized"
    /\ initPc' = "session"
    /\ listener' = [subscribed |-> TRUE, authInitialized |-> authInitialized]
    /\ last' = [op |-> "initializeAuth"]
    /\ UNCHANGED <<user, loading, profileLoadError, authInitialized, localStorage,
                   pass, refetchPending, signOutPending, signOutFrom, lastSwitch>>

\* getSession answers with a session: await loadUserProfile(session.user)
SessionFound ==
    /\ initPc = "session"
    /\ initPc' = "loading"
    /\ loadUserProfile("init")
    /\ last' = [op |-> "sessionFound"]
    /\ UNCHANGED <<user, authInitialized, localStorage, refetchPending,
                   signOutPending, signOutFrom, lastSwitch,
                   listener>>

\* getSession answers with an error result, or without a session:
\* setLoading(false); setAuthInitialized(true)
SessionNone(how) ==
    /\ initPc = "session"
    /\ initPc' = "done"
    /\ loading' = FALSE
    /\ authInitialized' = TRUE
    /\ listener' = NoListener
    /\ last' = [op |-> "sessionNone", outcome |-> how]
    /\ UNCHANGED <<user, profileLoadError, localStorage, pass, refetchPending,
                   signOutPending, signOutFrom, lastSwitch>>

\* getSession rejects, or the 8 s 'Session check timeout' wins the race
SessionRejected(message) ==
    /\ initPc = "session"
    /\ initPc' = "done"
    /\ loading' = FALSE
    /\ authInitialized' = TRUE
    /\ listener' = NoListener
    /\ profileLoadError' = IF MessageIncludes(message, "timeout")
                           THEN MsgStartupTimeout ELSE profileLoadError
    /\ last' = [op |-> "sessionRejected", outcome |-> message]
    /\ UNCHANGED <<user, localStorage, pass, refetchPending, signOutPending, signOutFrom,
                   lastSwitch>>

\* ------------------------------------------------------------------------
\* refetchUser
\* ------------------------------------------------------------------------

\* refetchUser up to its await of supabase.auth.getUser().  It is called
\* from the profile-setup screen, which is shown once initialization is
\* over; one loadUserProfile runs at a time.
refetchUser ==
    /\ initPc = "done"
    /\ ~refetchPending
    /\ ~InFlight
    /\ refetchPending' = TRUE
    /\ last' = [op |-> "refetchUser"]
    /\ UNCHANGED <<user, loading, profileLoadError, authInitialized, localStorage,
                   initPc, pass, signOutPending, signOutFrom, lastSwitch,
                   listener>>

\* getUser answers with a user: await loadUserProfile(authUser)
GetUserFound ==
    /\ refetchPending
    /\ refetchPending' = FALSE
    /\ loadUserProfile("refetch")
    /\ last' = [op |-> "getUserFound"]
    /\ UNCHANGED <<user, authInitialized, localStorage, initPc, signOutPending, signOutFrom,
                   listener,
                   lastSwitch>>

\* getUser answers without a user
GetUserNone ==
    /\ refetchPending
    /\ refetchPending' = FALSE
    /\ last' = [op |-> "getUserNone"]
    /\ UNCHANGED <<user, loading, profileLoadError, authInitialized, localStorage,
                   initPc, pass, signOutPending, signOutFrom, lastSwitch,
                   listener>>

\* getUser rejects: setProfileLoadError('Unable to refresh user data.')
GetUserRejected ==
    /\ refetchPending
    /\ refetchPending' = FALSE
    /\ profileLoadError' = MsgRefetch
    /\ last' = [op |-> "getUserRejected"]
    /\ UNCHANGED <<user, loading, authInitialized, localStorage, initPc, pass,
                   signOutPending, signOutFrom, lastSwitch,
                   listener>>

\* clearProfileLoadError
clearProfileLoadError ==
    /\ profileLoadError' = Null
    /\ last' = [op |-> "clearProfileLoadError"]
    /\ UNCHANGED <<user, loading, authInitialized, localStorage, initPc, pass,
                   refetchPending, signOutPending, signOutFrom, lastSwitch,
                   listener>>


\* ------------------------------------------------------------------------
\* switchAssociation
\* ------------------------------------------------------------------------

\* a pass that has read the stored id and not yet set the user no longer
\* holds the stored value once localStorage is written or cleared
StorageTouched ==
    IF pass.pc = "roles" THEN [pass EXCEPT !.stable = FALSE] ELSE pass

\* what the caller of switchAssociation observes: whether the promise
\* resolved or rejected, whether the association was found, whether
\* console.error was called
SwitchOutcome(associationId, outcome, found, logged) ==
    [op |-> "switchAssociation", id |-> associationId, outcome |-> outcome,
     found |-> found, logged |-> logged]

\* faulty variant of switchAssociation: without the early return for an
\* association that is not found
switchAssociationUnchecked(associationId, setItemOk) ==
    /\ IF user = NoUser
       THEN /\ last' = SwitchOutcome(associationId, "resolved", FALSE, FALSE)
            /\ UNCHANGED <<user, localStorage, lastSwitch, pass>>
       ELSE LET association == FindById(user.associations, associationId)
            IN IF ~setItemOk
               THEN /\ last' = SwitchOutcome(associationId, "rejected",
                                             association # Undefined, FALSE)
                    /\ UNCHANGED <<user, localStorage, lastSwitch, pass>>
               ELSE /\ localStorage' = associationId
                    /\ user' = [user EXCEPT !.currentAssociation = association]
                    /\ lastSwitch' = associationId
                    /\ pass' = StorageTouched
                    /\ last' = SwitchOutcome(associationId, "resolved",
                                             association # Undefined, FALSE)
    /\ UNCHANGED <<loading, profileLoadError, authInitialized, initPc,
                   refetchPending, signOutPending, signOutFrom,
                   listener>>

\* faulty variant of switchAssociation: the id of the association that was
\* current is stored, not the id asked for
switchAssociationPersistsPrevious(associationId, setItemOk) ==
    /\ IF user = NoUser
       THEN /\ last' = SwitchOutcome(associationId, "resolved", FALSE, FALSE)
            /\ UNCHANGED <<user, localStorage, lastSwitch, pass>>
       ELSE LET association == FindById(user.associations, associationId)
            IN IF association = Undefined
               THEN /\ last' = SwitchOutcome(associationId, "resolved", FALSE, TRUE)
                    /\ UNCHANGED <<user, localStorage, lastSwitch, pass>>
               ELSE IF ~setItemOk
               THEN /\ last' = SwitchOutcome(associationId, "rejected", TRUE, FALSE)
                    /\ UNCHANGED <<user, localStorage, lastSwitch, pass>>
               ELSE /\ localStorage' = user.currentAssociation.id
                    /\ user' = [user EXCEPT !.currentAssociation = association]
                    /\ lastSwitch' = associationId
                    /\ pass' = StorageTouched
                    /\ last' = SwitchOutcome(associationId, "resolved", TRUE, FALSE)
    /\ UNCHANGED <<loading, profileLoadError, authInitialized, initPc,
                   refetchPending, signOutPending, signOutFrom,
                   listener>>

\* faulty variant of switchAssociation: setUser runs before setItem, so that
\* the current association is changed although setItem throws
switchAssociationOptimistic(associationId, setItemOk) ==
    /\ IF user = NoUser
       THEN /\ last' = SwitchOutcome(associationId, "resolved", FALSE, FALSE)
            /\ UNCHANGED <<user, localStorage, lastSwitch, pass>>
       ELSE LET association == FindById(user.associations, associationId)
            IN IF association = Undefined
               THEN /\ last' = SwitchOutcome(associationId, "resolved", FALSE, TRUE)
                    /\ UNCHANGED <<user, localStorage, lastSwitch, pass>>
               ELSE IF ~setItemOk
               THEN /\ user' = [user EXCEPT !.currentAssociation = association]
                    /\ last' = SwitchOutcome(associationId, "rejected", TRUE, FALSE)
                    /\ UNCHANGED <<localStorage, lastSwitch, pass>>
               ELSE /\ localStorage' = associationId
                    /\ user' = [user EXCEPT !.currentAssociation = association]
                    /\ lastSwitch' = associationId
                    /\ pass' = StorageTouched
                    /\ last' = SwitchOutcome(associationId, "resolved", TRUE, FALSE)
    /\ UNCHANGED <<loading, profileLoadError, authInitialized, initPc,
                   refetchPending, signOutPending, signOutFrom,
                   listener>>

\* switchAssociation(associationId); setItemOk: localStorage.setItem stores
\* the value (it throws otherwise, e.g. QuotaExceededError)
switchAssociation(associationId, setItemOk) ==
    /\ IF user = NoUser
       THEN \* if (!user) return
            /\ last' = SwitchOutcome(associationId, "resolved", FALSE, FALSE)
            /\ UNCHANGED <<user, localStorage, lastSwitch, pass>>
       ELSE LET association == FindById(user.associations, associationId)
            IN IF association = Undefined
               THEN \* console.error('Association not found:'); return
                    /\ last' = SwitchOutcome(associationId, "resolved", FALSE, TRUE)
                    /\ UNCHANGED <<user, localStorage, lastSwitch, pass>>
               ELSE IF ~setItemOk
               THEN \* setItem throws: the async function rejects
                    /\ last' = SwitchOutcome(associationId, "rejected", TRUE, FALSE)
                    /\ UNCHANGED <<user, localStorage, lastSwitch, pass>>
               ELSE /\ localStorage' = associationId
                    /\ user' = [user EXCEPT !.currentAssociation = association]
                    /\ lastSwitch' = associationId
                    /\ pass' = StorageTouched
                    /\ last' = SwitchOutcome(associationId, "resolved", TRUE, FALSE)
    /\ UNCHANGED <<loading, profileLoadError, authInitialized, initPc,
                   refetchPending, signOutPending, signOutFrom,
                   listener>>

\* ------------------------------------------------------------------------
\* signOut / clearAuthState
\* ------------------------------------------------------------------------

\* signOut() -> clearAuthState() up to its await of supabase.auth.signOut()
clearAuthState ==
    /\ ~signOutPending
    /\ user' = NoUser
    /\ profileLoadError' = Null
    /\ loading' = FALSE
    /\ signOutPending' = TRUE
    /\ signOutFrom' = IF user # NoUser /\ ~loading /\ ~InFlight
                      THEN "ready" ELSE "other"
    /\ last' = [op |-> "clearAuthState"]
    /\ UNCHANGED <<authInitialized, localStorage, initPc, pass, refetchPending,
                   lastSwitch, listener>>

\* supabase.auth.signOut() answers (its result is not looked at):
\* localStorage.clear(); sessionStorage.clear(); return true
SignOutAnswered ==
    /\ signOutPending
    /\ signOutPending' = FALSE
    /\ signOutFrom' = "none"
    /\ localStorage' = Null
    /\ lastSwitch' = Null
    /\ pass' = StorageTouched
    /\ last' = [op |-> "signOut", outcome |-> TRUE, from |-> signOutFrom]
    /\ UNCHANGED <<user, loading, profileLoadError, authInitialized, initPc,
                   refetchPending, listener>>

\* supabase.auth.signOut() throws: catch, return false
SignOutRejected ==
    /\ signOutPending
    /\ signOutPending' = FALSE
    /\ signOutFrom' = "none"
    /\ last' = [op |-> "signOut", outcome |-> FALSE, from |-> signOutFrom]
    /\ UNCHANGED <<user, loading, profileLoadError, authInitialized, localStorage,
                   initPc, pass, refetchPending, lastSwitch, listener>>

\* ------------------------------------------------------------------------
\* Page reload
\* ------------------------------------------------------------------------

\* the page is loaded again: the provider is constructed anew, what was in
\* flight is gone, localStorage stays
Reload ==
    /\ initPc # "uninitialized"
    /\ user' = NoUser
    /\ loading' = TRUE
    /\ profileLoadError' = Null
    /\ authInitialized' = FALSE
    /\ initPc' = "uninitialized"
    /\ pass' = IdlePass
    /\ refetchPending' = FALSE
    /\ signOutPending' = FALSE
    /\ signOutFrom' = "none"
    /\ listener' = NoListener
    /\ last' = [op |-> "construct"]
    /\ UNCHANGED <<localStorage, lastSwitch>>

\* ------------------------------------------------------------------------
\* The create-user edge function
\* ------------------------------------------------------------------------

\* the email addresses requests name
Emails == {"ann@hoa.test", "bob@hoa.test"}

\* the JSON bodies of the requests: the email ("" if missing) and whether
\* password, firstName, lastName and associationId are there
Bodies ==
    [email : Emails \cup {""}, password : BOOLEAN, firstName : BOOLEAN,
     lastName : BOOLEAN, associationId : BOOLEAN]

\* new Response(..., { status })
Respond(status) ==
    handler' = [handler EXCEPT !.pc = "responded", !.status = status]

\* a request arrives: OPTIONS is answered 200, any method but POST 405,
\* POST goes on to await req.json()
Serve(method) ==
    /\ handler.pc = "idle"
    /\ IF method = "OPTIONS" THEN Respond(200)
       ELSE IF method # "POST" THEN Respond(405)
       ELSE handler' = [handler EXCEPT !.pc = "json"]
    /\ UNCHANGED <<authUsers, userProfiles>>

\* req.json() throws on a body that is no JSON: catch, 500
JsonRejected ==
    /\ handler.pc = "json"
    /\ Respond(500)
    /\ UNCHANGED <<authUsers, userProfiles>>

\* req.json() answers: validate the required fields, then call
\* supabaseAdmin.auth.admin.createUser
JsonParsed(body) ==
    /\ handler.pc = "json"
    /\ IF body.email = "" \/ ~body.password \/ ~body.firstName
          \/ ~body.associationId
       THEN Respond(400)
       ELSE handler' = [handler EXCEPT !.pc = "createUser", !.body = body]
    /\ UNCHANGED <<authUsers, userProfiles>>

\* createUser answers with the new identity; the provider creates no second
\* identity for an email
CreateUserCreated ==
    /\ handler.pc = "createUser"
    /\ handler.body.email \notin authUsers
    /\ authUsers' = authUsers \cup {handler.body.email}
    /\ handler' = [handler EXCEPT !.pc = "rpc", !.created = handler.body.email]
    /\ UNCHANGED userProfiles

\* createUser answers with an error result ("error"), without a user
\* ("no_user"), or rejects ("reject"); no identity was created
CreateUserFailed(how) ==
    /\ handler.pc = "createUser"
    /\ Respond(IF how = "reject" THEN 500 ELSE 400)
    /\ UNCHANGED <<authUsers, userProfiles>>

\* rpc('create_user_and_membership') has created profile and membership
\* and answers { success: true }
RpcSucceeded ==
    /\ handler.pc = "rpc"
    /\ userProfiles' = userProfiles \cup {handler.created}
    /\ Respond(200)
    /\ UNCHANGED authUsers

\* the rpc fails, nothing created: with an error result ("error") or a
\* result that carries an error ("result_error") the handler goes on to
\* deleteUser; a result { success: false } without an error string
\* ("no_success") passes both checks, 200; a rejection ("reject") is caught,
\* 500
RpcFailed(how) ==
    /\ handler.pc = "rpc"
    /\ IF how \in {"error", "result_error"}
       THEN handler' = [handler EXCEPT !.pc = "deleteUser"]
       ELSE Respond(IF how = "reject" THEN 500 ELSE 200)
    /\ UNCHANGED <<authUsers, userProfiles>>

\* auth.admin.deleteUser has deleted the identity: 400
DeleteUserDeleted ==
    /\ handler.pc = "deleteUser"
    /\ authUsers' = authUsers \ {handler.created}
    /\ Respond(400)
    /\ UNCHANGED userProfiles

\* deleteUser answers with an error result, which is not looked at
\* ("error"), 400; or rejects ("reject"), caught, 500; the identity stays
DeleteUserFailed(how) ==
    /\ handler.pc = "deleteUser"
    /\ Respond(IF how = "reject" THEN 500 ELSE 400)
    /\ UNCHANGED <<authUsers, userProfiles>>

\* the response is sent; the function waits for the next request
Responded ==
    /\ handler.pc = "responded"
    /\ handler' = IdleHandler
    /\ UNCHANGED <<authUsers, userProfiles>>

\* ------------------------------------------------------------------------
\* useViolations
\* ------------------------------------------------------------------------

\* the ids violations can have
MaxViolations == 3

\* how many provider calls of the hook are in flight at a time
MaxViolationCalls == 2

ViolationIds == 1..MaxViolations

\* .order('created_at', { ascending: false }): the newest (highest id) first
RECURSIVE NewestFirst(_)
NewestFirst(rows) ==
    IF rows = {} THEN <<>>
    ELSE LET newest == CHOOSE r \in rows : \A q \in rows : q.id <= r.id
         IN <<newest>> \o NewestFirst(rows \ {newest})

\* data.map(v => ({ id: v.id, ... })): what the list keeps of a row
RECURSIVE FormatViolations(_)
FormatViolations(rows) ==
    IF rows = <<>> THEN <<>>
    ELSE <<[id |-> Head(rows).id, association_id |-> Head(rows).association_id]>>
         \o FormatViolations(Tail(rows))

\* what .eq('id', id).eq('association_id', scope) selects
Matched(id, scope) ==
    {r \in violationRows : r.id = id /\ r.association_id = scope}

\* a provider call of the hook: user.currentAssociation.id is read, of the
\* user of the render the function was created in, when the query is built
ViolationCall(op, id) ==
    [op |-> op, scope |-> user.currentAssociation.id, id |-> id]

\* the query is sent
Issue(call) ==
    /\ user # NoUser
    /\ Cardinality(violationCalls) < MaxViolationCalls
    /\ violationCalls' = violationCalls \cup {call}
    /\ UNCHANGED <<violationRows, violations>>

\* the call is over
Settle(call) == violationCalls \ {call}

\* loadViolations (refetch) up to its await
loadViolations == Issue(ViolationCall("load", 0))

\* addViolation up to its await
addViolation == Issue(ViolationCall("insert", 0))

\* updateViolation(id) up to its await
updateViolation(id) == Issue(ViolationCall("update", id))

\* deleteViolation(id) up to its await
deleteViolation(id) == Issue(ViolationCall("delete", id))

\* the select answers with the rows of the association asked for:
\* setViolations(formattedViolations)
LoadAnswered(call) ==
    /\ call \in violationCalls
    /\ call.op = "load"
    /\ violations' = FormatViolations(NewestFirst(
                          {r \in violationRows : r.association_id = call.scope}))
    /\ violationCalls' = Settle(call)
    /\ UNCHANGED violationRows

\* the select answers with an error result or rejects: setError
LoadFailed(call) ==
    /\ call \in violationCalls
    /\ call.op = "load"
    /\ violationCalls' = Settle(call)
    /\ UNCHANGED <<violationRows, violations>>

\* the loadViolations() that follows a mutation: it is the function of the
\* render the mutation was called in, and filters on the association that
\* was current then
ReloadOf(call) == [op |-> "load", scope |-> call.scope, id |-> 0]

\* the insert answers with the new row: it is put in front of the list and
\* the list is loaded again
InsertAnswered(call, id) ==
    /\ call \in violationCalls
    /\ call.op = "insert"
    /\ id \notin {r.id : r \in violationRows}
    /\ violationRows' = violationRows \cup
           {[id |-> id, association_id |-> call.scope, edited |-> FALSE]}
    /\ violations' = <<[id |-> id, association_id |-> call.scope]>> \o violations
    /\ violationCalls' = Settle(call) \cup {ReloadOf(call)}

\* the update answers with the row it has changed, or, as .single() finds
\* no row, with an error result: 'Failed to update violation' is thrown
UpdateAnswered(call) ==
    /\ call \in violationCalls
    /\ call.op = "update"
    /\ LET matched == Matched(call.id, call.scope)
       IN /\ violationRows' = (violationRows \ matched) \cup
                                {[r EXCEPT !.edited = TRUE] : r \in matched}
          /\ violationCalls' = IF matched = {} THEN Settle(call)
                               ELSE Settle(call) \cup {ReloadOf(call)}
    /\ UNCHANGED violations

\* the delete answers: the rows it selects are gone and the id is taken
\* from the list
DeleteAnswered(call) ==
    /\ call \in violationCalls
    /\ call.op = "delete"
    /\ violationRows' = violationRows \ Matched(call.id, call.scope)
    /\ violations' = SelectSeq(violations, LAMBDA v : v.id # call.id)
    /\ violationCalls' = Settle(call)

\* an insert, update or delete answers with an error result or rejects:
\* nothing is written, 'Failed to ...' is thrown
MutationFailed(call) ==
    /\ call \in violationCalls
    /\ call.op \in {"insert", "update", "delete"}
    /\ violationCalls' = Settle(call)
    /\ UNCHANGED <<violationRows, violations>>

\* the association is switched from the header; setUser gives the hook a
\* new user, and its effect calls loadViolations
SwitchAndLoad(associationId) ==
    /\ user # NoUser
    /\ Cardinality(violationCalls) < MaxViolationCalls
    /\ switchAssociation(associationId, TRUE)
    /\ violationCalls' =
           IF last'.found
           THEN violationCalls \cup {[op |-> "load", scope |-> associationId, id |-> 0]}
           ELSE violationCalls
    /\ UNCHANGED <<violationRows, violations>>

\* ------------------------------------------------------------------------
\* Membership administration: addUserToAssociation, handleAssociationChange
\* ------------------------------------------------------------------------

\* the call p goes to position pc
OpAt(p, pc) == membershipOps' = [membershipOps EXCEPT ![p].pc = pc]

\* the call p is over (it has returned or thrown)
OpDone(p) == membershipOps' = [membershipOps EXCEPT ![p] = IdleOp]

\* addUserToAssociation(userId, associationId): 'Insufficient permissions'
\* is thrown unless the user holds manage_users; else the existence check
\* is sent
addUserToAssociation(p, associationId) ==
    /\ membershipOps[p].pc = "idle"
    /\ membershipOps' =
           IF user = NoUser \/ ~hasPermission("manage_users")
           THEN membershipOps
           ELSE [membershipOps EXCEPT
                    ![p] = [pc |-> "check", fn |-> "addUserToAssociation",
                            associationId |-> associationId]]
    /\ UNCHANGED membershipRows

\* handleAssociationChange(userId, newAssociationId): the existence check
\* is sent
handleAssociationChange(p, associationId) ==
    /\ membershipOps[p].pc = "idle"
    /\ membershipOps' =
           [membershipOps EXCEPT
               ![p] = [pc |-> "check", fn |-> "handleAssociationChange",
                       associationId |-> associationId]]
    /\ UNCHANGED membershipRows

\* .select('id').eq('user_id', ...).eq('association_id', ...).single()
\* answers: with the row if there is exactly one (the call returns, or
\* throws 'User is already a member'), with the error PGRST116 if there is
\* none or more than one (the call goes on to the insert)
CheckAnswered(p) ==
    /\ membershipOps[p].pc = "check"
    /\ IF membershipRows[membershipOps[p].associationId] = 1
       THEN OpDone(p)
       ELSE OpAt(p, "insert")
    /\ UNCHANGED membershipRows

\* the check answers with another error or rejects: the call throws
CheckFailed(p) ==
    /\ membershipOps[p].pc = "check"
    /\ OpDone(p)
    /\ UNCHANGED membershipRows

\* the insert answers: the table takes the row, whatever rows it holds
InsertMembership(p) ==
    /\ membershipOps[p].pc = "insert"
    /\ membershipRows[membershipOps[p].associationId] < MaxMembershipRows
    /\ membershipRows' =
           [membershipRows EXCEPT ![membershipOps[p].associationId] = @ + 1]
    /\ OpDone(p)

\* the insert answers with an error result or rejects: the call throws
InsertMembershipFailed(p) ==
    /\ membershipOps[p].pc = "insert"
    /\ OpDone(p)
    /\ UNCHANGED membershipRows

\* ------------------------------------------------------------------------
\* useRoles: createRole, updateRole, deleteRole
\* ------------------------------------------------------------------------

\* how many role writes are in flight at a time
MaxRoleCalls == 2

\* the ids of the roles that exist or are created
RoleIds == {"r-system", "r-a", "r-b", "r-new"}

\* what .eq('id', roleId).eq('association_id', scope)
\* .eq('is_system_role', false) selects
MatchedRoles(id, scope) ==
    {r \in roleRows :
        r.id = id /\ r.association_id = scope /\ r.is_system_role = FALSE}

\* if (!user || !hasPermission('manage_roles')) throw new Error(
\* 'Insufficient permissions'); else the query is built with
\* user.currentAssociation.id and sent
RoleWrite(op, id) ==
    /\ Cardinality(roleCalls) < MaxRoleCalls
    /\ IF user = NoUser \/ ~hasPermission("manage_roles")
       THEN /\ roleLast' = [op |-> op, outcome |-> "Insufficient permissions"]
            /\ UNCHANGED roleCalls
       ELSE /\ roleCalls' = roleCalls \cup
                   {[op |-> op, id |-> id, scope |-> user.currentAssociation.id]}
            /\ roleLast' = [op |-> op, outcome |-> "sent"]
    /\ UNCHANGED roleRows

\* createRole(roleData) up to its await
createRole == RoleWrite("createRole", "r-new")

\* updateRole(roleId, roleData) up to its await
updateRole(roleId) == RoleWrite("updateRole", roleId)

\* faulty variant of deleteRole: without the permission check
deleteRoleUnguarded(roleId) ==
    /\ user # NoUser
    /\ Cardinality(roleCalls) < MaxRoleCalls
    /\ roleCalls' = roleCalls \cup
           {[op |-> "deleteRole", id |-> roleId,
             scope |-> user.currentAssociation.id]}
    /\ roleLast' = [op |-> "deleteRole", outcome |-> "sent"]
    /\ UNCHANGED roleRows

\* deleteRole(roleId) up to its await
deleteRole(roleId) == RoleWrite("deleteRole", roleId)

\* the insert answers with the new row: association_id is the current
\* association of the call, is_system_role is false
CreateRoleAnswered(call) ==
    /\ call \in roleCalls
    /\ call.op = "createRole"
    /\ call.id \notin {r.id : r \in roleRows}
    /\ roleRows' = roleRows \cup
           {[id |-> call.id, association_id |-> call.scope,
             is_system_role |-> FALSE, edited |-> FALSE]}
    /\ roleCalls' = roleCalls \ {call}
    /\ roleLast' = [op |-> call.op, outcome |-> "done"]

\* the update answers: with the changed row, or, as .single() finds no
\* row, with an error result ('Failed to update role' is thrown)
UpdateRoleAnswered(call) ==
    /\ call \in roleCalls
    /\ call.op = "updateRole"
    /\ LET matched == MatchedRoles(call.id, call.scope)
       IN /\ roleRows' = (roleRows \ matched) \cup
                           {[r EXCEPT !.edited = TRUE] : r \in matched}
          /\ roleLast' = [op |-> call.op,
                          outcome |-> IF matched = {} THEN "failed" ELSE "done"]
    /\ roleCalls' = roleCalls \ {call}

\* the delete answers: the rows it selects are gone
DeleteRoleAnswered(call) ==
    /\ call \in roleCalls
    /\ call.op = "deleteRole"
    /\ roleRows' = roleRows \ MatchedRoles(call.id, call.scope)
    /\ roleCalls' = roleCalls \ {call}
    /\ roleLast' = [op |-> call.op, outcome |-> "done"]

\* a role write answers with an error result or rejects: nothing is
\* written, 'Failed to ...' is thrown
RoleWriteFailed(call) ==
    /\ call \in roleCalls
    /\ roleCalls' = roleCalls \ {call}
    /\ roleLast' = [op |-> call.op, outcome |-> "failed"]
    /\ UNCHANGED roleRows

\* ------------------------------------------------------------------------
\* signIn, signUp and the auth events (AuthContextInternal.ts)
\* ------------------------------------------------------------------------

\* the provider emits an auth event to the callback subscribed by the
\* effect.  The callback returns at once if the authInitialized of its
\* render is false; SIGNED_IN with a session loads the profile; SIGNED_OUT
\* clears the user and resets authInitialized, on which the effect cleans
\* up and runs again.
Notify(event) ==
    IF listener.subscribed /\ listener.authInitialized
    THEN IF event = "SIGNED_IN"
         THEN /\ loadUserProfile("listener")
              /\ UNCHANGED <<user, authInitialized, initPc, listener>>
         ELSE /\ user' = NoUser
              /\ profileLoadError' = Null
              /\ loading' = FALSE
              /\ authInitialized' = FALSE
              /\ initPc' = "uninitialized"
              /\ listener' = NoListener
              /\ UNCHANGED pass
    ELSE UNCHANGED <<user, loading, profileLoadError, authInitialized, initPc,
                     pass, listener>>

\* the sign-in form is on screen (AppContent shows it when there is no
\* user, no load and no load error) and neither of its calls is running
FormShown ==
    /\ initPc = "done"
    /\ user = NoUser
    /\ ~loading
    /\ profileLoadError = Null
    /\ ~signInPending
    /\ signUpOp.pc = "idle"

\* signIn(email, password) up to its await of signInWithPassword
signIn ==
    /\ FormShown
    /\ profileLoadError' = Null
    /\ signInPending' = TRUE
    /\ last' = [op |-> "signIn", outcome |-> "pending"]
    /\ UNCHANGED <<user, loading, authInitialized, localStorage, initPc, pass,
                   refetchPending, signOutPending, signOutFrom, lastSwitch,
                   listener, signUpOp>>

\* signInWithPassword has opened a session: the provider emits SIGNED_IN,
\* signIn returns { error: null } and does nothing else
SignInSucceeded ==
    /\ signInPending
    /\ signInPending' = FALSE
    /\ Notify("SIGNED_IN")
    /\ last' = [op |-> "signIn", outcome |-> "signed_in"]
    /\ UNCHANGED <<localStorage, refetchPending, signOutPending, signOutFrom,
                   lastSwitch, signUpOp>>

\* signInWithPassword answers with an error result ("error") or rejects
\* ("reject"): signIn returns the error, no session, no event
SignInFailed(how) ==
    /\ signInPending
    /\ signInPending' = FALSE
    /\ last' = [op |-> "signIn", outcome |-> how]
    /\ UNCHANGED <<user, loading, profileLoadError, authInitialized,
                   localStorage, initPc, pass, refetchPending, signOutPending,
                   signOutFrom, lastSwitch, listener, signUpOp>>

\* the provider emits SIGNED_OUT (the session ended elsewhere or expired)
SessionEnded ==
    /\ initPc # "uninitialized"
    /\ Notify("SIGNED_OUT")
    /\ last' = [op |-> "SIGNED_OUT"]
    /\ UNCHANGED <<localStorage, refetchPending, signOutPending, signOutFrom,
                   lastSwitch, formVars>>

\* the page is loaded anew: what the form was waiting for is gone with it
ReloadPage ==
    /\ Reload
    /\ signInPending' = FALSE
    /\ signUpOp' = IdleSignUp

\* signUp(email, ...) up to its await of supabase.auth.signUp
signUp(email) ==
    /\ FormShown
    /\ profileLoadError' = Null
    /\ signUpOp' = [pc |-> "auth", email |-> email, created |-> Null,
                    result |-> "none"]
    /\ last' = [op |-> "signUp"]
    /\ UNCHANGED <<user, loading, authInitialized, localStorage, initPc, pass,
                   refetchPending, signOutPending, signOutFrom, lastSwitch,
                   listener, signInPending, serverVars>>

\* supabase.auth.signUp has created the identity: on to the rpc
AuthSignUpCreated ==
    /\ signUpOp.pc = "auth"
    /\ signUpOp.email \notin authUsers
    /\ authUsers' = authUsers \cup {signUpOp.email}
    /\ signUpOp' = [signUpOp EXCEPT !.pc = "rpc", !.created = signUpOp.email]
    /\ UNCHANGED <<clientVars, userProfiles, handler, signInPending>>

\* supabase.auth.signUp answers with an error result ("error"), without a
\* user ("no_user"), or rejects ("reject"): no identity was created, signUp
\* returns an error
AuthSignUpFailed(how) ==
    /\ signUpOp.pc = "auth"
    /\ signUpOp' = [signUpOp EXCEPT !.pc = "idle", !.result = "error"]
    /\ UNCHANGED <<clientVars, serverVars, signInPending>>

\* rpc('create_user_and_membership') has created profile and membership
\* and answers { success: true }: signUp returns { error: null }
SignUpRpcSucceeded ==
    /\ signUpOp.pc = "rpc"
    /\ userProfiles' = userProfiles \cup {signUpOp.created}
    /\ signUpOp' = [signUpOp EXCEPT !.pc = "idle", !.result = "ok"]
    /\ UNCHANGED <<clientVars, authUsers, handler, signInPending>>

\* the rpc fails, nothing created: with an error result ("error"), a
\* result { success: false } ("no_success") or a rejection ("reject")
\* signUp returns an error and does nothing else
SignUpRpcFailed(how) ==
    /\ signUpOp.pc = "rpc"
    /\ signUpOp' = [signUpOp EXCEPT !.pc = "idle", !.result = "error"]
    /\ UNCHANGED <<clientVars, serverVars, signInPending>>

\* ------------------------------------------------------------------------
\* Specification
\* ------------------------------------------------------------------------

\* a step of the AuthProvider: the edge function is elsewhere
Client(A) ==
    A /\ UNCHANGED <<serverVars, violationVars, membershipVars, roleVars,
                     formVars>>

\* the steps of one life of the page
Steps ==
    \/ Client(initializeAuth)
    \/ Client(SessionFound)
    \/ \E how \in {"error", "no_session"} :
          Client(SessionNone(how))
    \/ \E message \in RejectMessages \cup {"Session check timeout"} :
          Client(SessionRejected(message))
    \/ Client(refetchUser)
    \/ Client(GetUserFound)
    \/ Client(GetUserNone)
    \/ Client(GetUserRejected)
    \/ Client(clearProfileLoadError)
    \/ \E code \in {"PGRST116", "other"} :
          Client(ProfileError(code))
    \/ Client(ProfileNoData)
    \/ \E message \in RejectMessages :
          Client(ProfileRejected(message))
    \/ Client(ProfileTimeout)
    \/ \E late \in BOOLEAN :
          Client(ProfileLoaded(late))
    \/ Client(AssociationsError)
    \/ Client(AssociationsEmpty)
    \/ \E message \in RejectMessages :
          Client(AssociationsRejected(message))
    \/ Client(AssociationsTimeout)
    \/ \E memberships \in MembershipLists, late \in BOOLEAN :
          Client(AssociationsLoaded(memberships, late))
    \/ \E roles \in RoleLists :
          Client(RolesLoaded(roles))
    \/ \E how \in {"error", "no_data", "reject"} :
          Client(RolesFailed(how))
    \/ Client(RolesTimeout)
    \/ Client(AbsoluteTimeout)
    \/ \E associationId \in AssociationIds, setItemOk \in BOOLEAN :
          Client(switchAssociation(associationId, setItemOk))
    \/ Client(clearAuthState)
    \/ Client(SignOutAnswered)
    \/ Client(SignOutRejected)

Next ==
    \/ Steps
    \/ Client(Reload)

Spec == Init /\ [][Next]_vars

\* a step of the edge function: the browser is elsewhere
Server(A) ==
    A /\ UNCHANGED <<clientVars, violationVars, membershipVars, roleVars,
                     formVars>>

\* the edge function alone, the page not yet loaded
InitCreateUser ==
    /\ Init
    /\ localStorage = Null

NextCreateUser ==
    \/ \E method \in {"OPTIONS", "GET", "POST"} :
          Server(Serve(method))
    \/ Server(JsonRejected)
    \/ \E body \in Bodies :
          Server(JsonParsed(body))
    \/ Server(CreateUserCreated)
    \/ \E how \in {"error", "no_user", "reject"} :
          Server(CreateUserFailed(how))
    \/ Server(RpcSucceeded)
    \/ \E how \in {"error", "result_error", "no_success", "reject"} :
          Server(RpcFailed(how))
    \/ Server(DeleteUserDeleted)
    \/ \E how \in {"error", "reject"} :
          Server(DeleteUserFailed(how))
    \/ Server(Responded)

SpecCreateUser == InitCreateUser /\ [][NextCreateUser]_vars

\* One life of the page, with what React and the browser's timers
\* guarantee: the effect that calls initializeAuth runs after the first
\* render, and a timer that was set and not cleared fires.  Nothing is
\* assumed of the provider: no call of it need ever answer.
LiveSpec ==
    /\ Init
    /\ [][Steps]_vars
    /\ WF_vars(Client(initializeAuth))
    /\ WF_vars(Client(SessionRejected("Session check timeout")))
    /\ WF_vars(Client(ProfileTimeout))
    /\ WF_vars(Client(AssociationsTimeout))
    /\ WF_vars(Client(RolesTimeout))


\* a step of useViolations: the AuthProvider stays as it is
Hook(A) ==
    A /\ UNCHANGED <<clientVars, serverVars, membershipVars, roleVars,
                     formVars>>

\* the page of a signed-in user who is a member of both associations, once
\* the load pass has ended ready: the effect of useViolations has called
\* loadViolations for the current association
InitViolations ==
    /\ ServerInit
    /\ \E current \in AssociationIds :
          /\ user = [profile |-> ProfileRow,
                     associations |-> <<Association("A"), Association("B")>>,
                     currentAssociation |-> Association(current),
                     roles |-> AllRoles,
                     permissions |-> Dedupe(FlatMapPermissions(AllRoles))]
          /\ localStorage = current
          /\ violationCalls = {[op |-> "load", scope |-> current, id |-> 0]}
    /\ loading = FALSE
    /\ profileLoadError = Null
    /\ authInitialized = TRUE
    /\ initPc = "done"
    /\ pass = IdlePass
    /\ refetchPending = FALSE
    /\ signOutPending = FALSE
    /\ signOutFrom = "none"
    /\ listener = NoListener
    /\ last = [op |-> "loadUserProfile", outcome |-> "ready", stage |-> "roles",
               answer |-> "rows", rows |-> Len(AllRoles), stable |-> TRUE]
    /\ lastSwitch = Null
    /\ violationRows = {[id |-> 1, association_id |-> "A", edited |-> FALSE],
                        [id |-> 2, association_id |-> "B", edited |-> FALSE]}
    /\ violations = <<>>
    /\ MembershipsInit
    /\ RolesInit
    /\ FormInit

NextViolations ==
    \/ Hook(loadViolations)
    \/ Hook(addViolation)
    \/ \E id \in ViolationIds :
          Hook(updateViolation(id))
    \/ \E id \in ViolationIds :
          Hook(deleteViolation(id))
    \/ \E call \in violationCalls :
          Hook(LoadAnswered(call))
    \/ \E call \in violationCalls :
          Hook(LoadFailed(call))
    \/ \E call \in violationCalls, id \in ViolationIds :
          Hook(InsertAnswered(call, id))
    \/ \E call \in violationCalls :
          Hook(UpdateAnswered(call))
    \/ \E call \in violationCalls :
          Hook(DeleteAnswered(call))
    \/ \E call \in violationCalls :
          Hook(MutationFailed(call))
    \/ \E associationId \in AssociationIds :
          /\ SwitchAndLoad(associationId)
          /\ UNCHANGED <<serverVars, membershipVars, roleVars, formVars>>

SpecViolations == InitViolations /\ [][NextViolations]_vars

\* a step of the membership administration of a signed-in administrator
Admin(A) ==
    A /\ UNCHANGED <<clientVars, serverVars, violationVars, roleVars,
                     formVars>>

\* the user administration of a ready user who holds manage_users in A and
\* not in B
InitMemberships ==
    /\ InitViolations

NextMemberships ==
    \/ \E p \in 1..MaxMembershipOps, associationId \in AssociationIds :
          Admin(addUserToAssociation(p, associationId))
    \/ \E p \in 1..MaxMembershipOps, associationId \in AssociationIds :
          Admin(handleAssociationChange(p, associationId))
    \/ \E p \in 1..MaxMembershipOps :
          Admin(CheckAnswered(p))
    \/ \E p \in 1..MaxMembershipOps :
          Admin(CheckFailed(p))
    \/ \E p \in 1..MaxMembershipOps :
          Admin(InsertMembership(p))
    \/ \E p \in 1..MaxMembershipOps :
          Admin(InsertMembershipFailed(p))

SpecMemberships == InitMemberships /\ [][NextMemberships]_vars

\* a step of useRoles: the AuthProvider stays as it is
RolesHook(A) ==
    A /\ UNCHANGED <<clientVars, serverVars, violationVars, membershipVars,
                     formVars>>

\* the role administration of a ready user who is a member of both
\* associations and holds, besides the system role, a role of A that
\* grants manage_roles
InitRoles ==
    /\ ServerInit
    /\ ViolationsInit
    /\ MembershipsInit
    /\ RolesInit
    /\ FormInit
    /\ \E current \in AssociationIds :
          /\ user = [profile |-> ProfileRow,
                     associations |-> <<Association("A"), Association("B")>>,
                     currentAssociation |-> Association(current),
                     roles |-> <<RoleSystem, RoleManagerA>>,
                     permissions |->
                         Dedupe(FlatMapPermissions(<<RoleSystem, RoleManagerA>>))]
          /\ localStorage = current
    /\ loading = FALSE
    /\ profileLoadError = Null
    /\ authInitialized = TRUE
    /\ initPc = "done"
    /\ pass = IdlePass
    /\ refetchPending = FALSE
    /\ signOutPending = FALSE
    /\ signOutFrom = "none"
    /\ listener = NoListener
    /\ last = [op |-> "loadUserProfile", outcome |-> "ready", stage |-> "roles",
               answer |-> "rows", rows |-> 2, stable |-> TRUE]
    /\ lastSwitch = Null

NextRoles ==
    \/ RolesHook(createRole)
    \/ \E roleId \in RoleIds :
          RolesHook(updateRole(roleId))
    \/ \E roleId \in RoleIds :
          RolesHook(deleteRole(roleId))
    \/ \E call \in roleCalls :
          RolesHook(CreateRoleAnswered(call))
    \/ \E call \in roleCalls :
          RolesHook(UpdateRoleAnswered(call))
    \/ \E call \in roleCalls :
          RolesHook(DeleteRoleAnswered(call))
    \/ \E call \in roleCalls :
          RolesHook(RoleWriteFailed(call))
    \/ \E associationId \in AssociationIds :
          Client(switchAssociation(associationId, TRUE))

SpecRoles == InitRoles /\ [][NextRoles]_vars

\* a step of the sign-in form or of the auth events: the edge function
\* and the hooks are elsewhere
Form(A) ==
    A /\ UNCHANGED <<violationVars, membershipVars, roleVars>>

\* one life of the page with the sign-in form and the provider's events
NextSignIn ==
    \/ Steps
    \/ Form(ReloadPage /\ UNCHANGED serverVars)
    \/ Form(signIn /\ UNCHANGED serverVars)
    \/ Form(SignInSucceeded /\ UNCHANGED serverVars)
    \/ \E how \in {"error", "reject"} :
          Form(SignInFailed(how) /\ UNCHANGED serverVars)
    \/ Form(SessionEnded /\ UNCHANGED serverVars)

SpecSignIn == Init /\ [][NextSignIn]_vars

\* the sign-in form alone, shown after an initialization that found no
\* session, with earlier sign-ups or none
InitSignUp ==
    /\ \E registered \in SUBSET Emails :
          /\ authUsers = registered
          /\ userProfiles = registered
    /\ handler = IdleHandler
    /\ ViolationsInit
    /\ MembershipsInit
    /\ RolesInit
    /\ FormInit
    /\ user = NoUser
    /\ loading = FALSE
    /\ profileLoadError = Null
    /\ authInitialized = TRUE
    /\ localStorage \in AssociationIds \cup {Null}
    /\ initPc = "done"
    /\ pass = IdlePass
    /\ refetchPending = FALSE
    /\ signOutPending = FALSE
    /\ signOutFrom = "none"
    /\ last = [op |-> "sessionNone", outcome |-> "no_session"]
    /\ lastSwitch = Null
    /\ listener = NoListener

NextSignUp ==
    \/ \E email \in Emails :
          Form(signUp(email))
    \/ Form(AuthSignUpCreated)
    \/ \E how \in {"error", "no_user", "reject"} :
          Form(AuthSignUpFailed(how))
    \/ Form(SignUpRpcSucceeded)
    \/ \E how \in {"error", "no_success", "reject"} :
          Form(SignUpRpcFailed(how))

SpecSignUp == InitSignUp /\ [][NextSignUp]_vars

\* ------------------------------------------------------------------------
\* Properties
\* ------------------------------------------------------------------------

\* the elements of an array
Elements(s) == {s[i] : i \in 1..Len(s)}

\* a role counts for association a: it is a system role or a owns it
CountsFor(role, a) == role.is_system_role \/ role.association_id = a

\* the last step was a switchAssociation call
Switched == last.op = "switchAssociation"

\* the last step was a switchAssociation call that found the association
\* and returned normally
SwitchedTo(a) ==
    /\ Switched
    /\ last.id = a
    /\ last.found
    /\ last.outcome = "resolved"

\* C1: with a user resolved, hasPermission(p) holds exactly if p is in the
\* permission list of a role the user holds that is a system role or is
\* owned by the current association; it does not throw.
C1_HasPermissionScoped ==
    user # NoUser =>
        \A p \in Permissions :
            /\ hasPermissionResult(user, p) \in {"true", "false"}
            /\ hasPermission(p) <=>
                  \E role \in Elements(user.roles) :
                      /\ CountsFor(role, user.currentAssociation.id)
                      /\ p \in Elements(role.permissions)

\* the user is a member of A and of B and holds the role owned by A, B is
\* current: manage_users (granted by that role only) is refused,
\* view_violations (granted by the system role) is allowed
C1_Witness ==
    /\ user # NoUser
    /\ Elements(user.associations) = {Association("A"), Association("B")}
    /\ user.roles = <<RoleSystem, RoleA>>
    /\ user.currentAssociation.id = "B"
    /\ ~hasPermission("manage_users")
    /\ hasPermission("view_violations")


\* permission p is granted to the user by a role owned by association t and
\* by no role that is a system role or owned by another association
GrantedOnlyIn(p, t) ==
    /\ \E role \in Elements(user.roles) :
          p \in Elements(role.permissions)
    /\ \A role \in Elements(user.roles) :
          p \in Elements(role.permissions) =>
             ~role.is_system_role /\ role.association_id = t

\* C2: a permission granted only by a role owned by association T is held
\* exactly while T is the current association, whatever switchAssociation
\* calls were made; a call changes the current association to the one asked
\* for and leaves the roles alone, so that switching away from T takes the
\* permission away and switching back returns it.
C2_TenantScopedFollowsSwitch ==
    /\ [](user # NoUser =>
            \A p \in Permissions, t \in AssociationIds :
                GrantedOnlyIn(p, t) =>
                    (hasPermission(p) <=> user.currentAssociation.id = t))
    /\ [][(user # NoUser /\ last'.op = "switchAssociation") =>
             /\ user' # NoUser
             /\ user'.roles = user.roles
             /\ (last'.found /\ last'.outcome = "resolved") =>
                   user'.currentAssociation.id = last'.id]_vars

\* the user is a member of A, holds the role owned by A, which alone
\* grants manage_users, and has just switched to B: the permission is gone
C2_Witness ==
    /\ user # NoUser
    /\ SwitchedTo("B")
    /\ GrantedOnlyIn("manage_users", "A")
    /\ Association("A") \in Elements(user.associations)
    /\ user.currentAssociation.id = "B"
    /\ ~hasPermission("manage_users")

\* the id is not among the associations of the loaded user
NotAmong(associationId) ==
    /\ user # NoUser
    /\ FindById(user.associations, associationId) = Undefined

C4_SwitchUpdatesBoth ==
    /\ [](\A x \in AssociationIds :
            SwitchedTo(x) =>
               /\ user # NoUser
               /\ user.currentAssociation.id = x
               /\ localStorage = x)
    /\ [][(last'.op = "switchAssociation"
           /\ ~(last'.found /\ last'.outcome = "resolved")) =>
             /\ user' = user
             /\ localStorage' = localStorage]_vars

\* B was stored and the first association was current; the user has
\* switched to A, the second of their associations
C4_Witness ==
    /\ SwitchedTo("A")
    /\ user # NoUser
    /\ user.associations = <<Association("B"), Association("A")>>
    /\ user.currentAssociation.id = "A"
    /\ localStorage = "A"


\* the last step ended a loadUserProfile pass in ready
Ready == last.op = "loadUserProfile" /\ last.outcome = "ready"

\* the association the claims name: the one whose id is the stored id if
\* there is one among the associations, and the first association otherwise
Preferred(associations, storedId) ==
    IF \E a \in Elements(associations) : a.id = storedId
    THEN CHOOSE a \in Elements(associations) : a.id = storedId
    ELSE associations[1]

\* C5: a load pass that reaches ready has as current association the one
\* whose id is the stored 'currentAssociationId' if that id is among the
\* loaded memberships, and the first of the membership list otherwise.  The
\* pass picks it from what is stored when the membership list arrives, sets
\* the user with that pick and that list, and the pick agrees with what is
\* stored at ready unless localStorage was written or cleared in between.
C5_CurrentAssociationAtReady ==
    /\ [][last'.op = "associationsLoaded" =>
             pass'.currentAssociation = Preferred(pass'.associations, localStorage)]_vars
    /\ [][(last'.op = "loadUserProfile" /\ last'.outcome = "ready") =>
             /\ user' # NoUser
             /\ user'.associations = pass.associations
             /\ user'.currentAssociation = pass.currentAssociation]_vars
    /\ []((Ready /\ last.stable) =>
             user.currentAssociation = Preferred(user.associations, localStorage))

\* a pass has reached ready with memberships A, B while B was stored: B,
\* the second of the list, is current
C5_Witness ==
    /\ Ready
    /\ last.stable
    /\ localStorage = "B"
    /\ lastSwitch = Null
    /\ user.associations = <<Association("A"), Association("B")>>
    /\ user.currentAssociation.id = "B"

\* C6: after a switchAssociation(X) that went through, a load pass that
\* reads the stored id afterwards (nothing having written or cleared
\* localStorage since) makes X the current association if X is among the
\* memberships it loaded, the same list or another, and the first
\* membership of the list if X is no longer among them.
C6_SwitchSurvivesReload ==
    (Ready /\ last.stable /\ lastSwitch # Null) =>
        /\ user # NoUser
        /\ user.currentAssociation = Preferred(user.associations, lastSwitch)

\* the user had switched to B; a later pass has loaded the memberships A, B
\* and B is current again
C6_Witness ==
    /\ Ready
    /\ last.stable
    /\ lastSwitch = "B"
    /\ user.associations = <<Association("A"), Association("B")>>
    /\ user.currentAssociation.id = "B"

\* C7: a switchAssociation(X) that follows at once on a switchAssociation(X)
\* that went through changes nothing: user (current association, roles,
\* permissions), loading, the load error and the stored id are as after
\* the first call.
C7_SwitchIdempotent ==
    [][(/\ last.op = "switchAssociation"
        /\ last.found
        /\ last.outcome = "resolved"
        /\ last'.op = "switchAssociation"
        /\ last'.id = last.id) =>
          /\ user' = user
          /\ localStorage' = localStorage
          /\ loading' = loading
          /\ profileLoadError' = profileLoadError
          /\ last'.found]_vars

\* A was current and stored, the user has switched to B, their first
\* association
C7_Witness ==
    /\ SwitchedTo("B")
    /\ user # NoUser
    /\ user.associations = <<Association("B"), Association("A")>>
    /\ user.currentAssociation.id = "B"
    /\ localStorage = "B"
    /\ lastSwitch = "B"


\* the last step ended a loadUserProfile pass at its role fetch, on the
\* given kind of answer
RolesAnswered(answers) ==
    /\ last.op = "loadUserProfile"
    /\ last.stage = "roles"
    /\ last.answer \in answers

\* hasPermission of user u if association a were current
hasPermissionIn(u, a, p) ==
    hasPermissionResult([u EXCEPT !.currentAssociation = a], p)

\* C8: a pass that has loaded a profile and at least one membership and is
\* answered zero role assignments reaches ready (user set, loading false,
\* no error); and a user without roles is refused every permission,
\* whichever of their associations is current.
C8_NoRolesNoPermissions ==
    /\ (RolesAnswered({"rows"}) /\ last.rows = 0) =>
          /\ last.outcome = "ready"
          /\ user # NoUser
          /\ user.roles = <<>>
          /\ Len(user.associations) >= 1
          /\ ~loading
          /\ profileLoadError = Null
    /\ (user # NoUser /\ user.roles = <<>>) =>
          \A p \in Permissions :
             /\ ~hasPermission(p)
             /\ \A a \in Elements(user.associations) :
                   hasPermissionIn(user, a, p) = "false"

\* a pass has just reached ready on an empty role answer, for a member of
\* two associations
C8_Witness ==
    /\ RolesAnswered({"rows"})
    /\ last.rows = 0
    /\ Ready
    /\ user.roles = <<>>
    /\ Len(user.associations) = 2
    /\ \A p \in Permissions : ~hasPermission(p)

\* C9: a pass whose role fetch fails (error result, no data, rejection, or
\* its own timeout) still reaches ready: the user is set with no roles and
\* no permissions, loading is false and there is no load error.
C9_RoleFailureNotFatal ==
    RolesAnswered({"error", "no_data", "reject", "timeout"}) =>
        /\ last.outcome = "ready"
        /\ user # NoUser
        /\ user.roles = <<>>
        /\ user.permissions = <<>>
        /\ ~loading
        /\ profileLoadError = Null

\* the role fetch of a pass has just timed out
C9_Witness ==
    /\ RolesAnswered({"timeout"})
    /\ Ready
    /\ user # NoUser
    /\ user.roles = <<>>
    /\ ~loading

\* the argument lists of hasAnyPermission
PermissionArgs == UNION {[1..n -> Permissions] : n \in 0..MaxPermissionArgs}

\* every permission check answers false, without throwing
AllRefused ==
    /\ \A p \in Permissions : hasPermissionResult(user, p) = "false"
    /\ \A ps \in PermissionArgs : hasAnyPermissionResult(user, ps) = "false"

\* C10: while no user is resolved, hasPermission and hasAnyPermission
\* return false for every argument and do not throw; no user is resolved
\* before the session check has answered and right after clearAuthState
\* has run.
C10_NoUserNoPermission ==
    /\ user = NoUser => AllRefused
    /\ initPc \in {"uninitialized", "session"} => user = NoUser
    /\ last.op = "clearAuthState" => user = NoUser

\* the user had switched association and has signed out since
C10_Witness ==
    /\ user = NoUser
    /\ last.op = "clearAuthState"
    /\ lastSwitch # Null
    /\ AllRefused


\* for user u, hasAnyPermission(ps) is true exactly if hasPermission(p) is
\* true for at least one p of ps; it is false for the empty list and does
\* not throw
HasAnyIffSome(u) ==
    LET granted == {p \in Permissions : hasPermissionResult(u, p) = "true"}
    IN \A ps \in PermissionArgs :
          LET any == hasAnyPermissionResult(u, ps)
          IN /\ any \in {"true", "false"}
             /\ any = "true" <=> Elements(ps) \cap granted # {}
             /\ ps = <<>> => any = "false"

\* the values an AuthUser can take: the associations of some membership
\* answer, one of them as the current one, some role answer and its
\* flattened permissions
AuthUserValues ==
    UNION {{[profile |-> ProfileRow,
             associations |-> MapAssociations(memberships),
             currentAssociation |-> current,
             roles |-> roles,
             permissions |-> Dedupe(FlatMapPermissions(roles))] :
                current \in Elements(MapAssociations(memberships)),
                roles \in RoleLists} :
           memberships \in MembershipLists}

\* hasAnyPermission agrees with "some hasPermission is true" for every
\* value the user can take, signed out included
HasAnyIffSomeOfAll == \A u \in AuthUserValues \cup {NoUser} : HasAnyIffSome(u)

\* C11: hasAnyPermission(ps) is true exactly if hasPermission(p) is true for
\* at least one p of ps, against the same user and current association; it
\* is false for the empty list, and it does not throw.  Both read nothing
\* but the user, so it is settled for every value of the user, and the
\* user is always one of these values.
C11_HasAnyIffSome ==
    /\ user \in AuthUserValues \cup {NoUser}
    /\ HasAnyIffSomeOfAll

C11_Witness ==
    /\ user # NoUser
    /\ user.currentAssociation.id = "A"
    /\ ~hasPermission("manage_roles")
    /\ hasPermission("manage_users")
    /\ hasAnyPermission(<<"manage_roles", "manage_users">>)
    /\ ~hasAnyPermission(<<"manage_roles">>)
    /\ ~hasAnyPermission(<<>>)


\* the last step was the return of a signOut() that had been called while
\* the session was ready
SignedOutFromReady == last.op = "signOut" /\ last.from = "ready"

\* C12: once a signOut called while the session was ready has returned, the
\* session is unauthenticated: no user, loading false, no stored
\* 'currentAssociationId', and every permission check answers false without
\* throwing.
C12_SignOutFromReady ==
    SignedOutFromReady =>
        /\ user = NoUser
        /\ ~loading
        /\ localStorage = Null
        /\ AllRefused

\* C13: once signOut has returned, whether the provider's sign-out call
\* answered or threw, nothing is stored under 'currentAssociationId'.
C13_SignOutClearsStorage ==
    last.op = "signOut" => localStorage = Null


\* the outcomes of a pass that ends without data: the profile row is
\* missing, the profile fetch failed, there is no active membership, the
\* membership fetch failed
AbsentKinds ==
    {"profile_missing", "profile_failed", "tenant_missing", "memberships_failed"}

\* which of them the pass recorded in l ended in
KindOf(l) ==
    IF l.outcome \in {"profile_missing", "tenant_missing"} THEN l.outcome
    ELSE IF l.stage = "profile" THEN "profile_failed"
    ELSE "memberships_failed"

\* the messages loadUserProfile has for each of them: those of its early
\* returns and, for a fetch that rejects or runs into its timeout, those of
\* its catch block
MessagesOf(kind) ==
    CASE kind = "profile_missing" -> {MsgNoProfile}
      [] kind = "profile_failed" ->
           {MsgProfileFailed}
           \cup {CatchMessage(m) : m \in RejectMessages \cup {"Profile query timeout"}}
      [] kind = "tenant_missing" -> {MsgNoAssociations}
      [] kind = "memberships_failed" ->
           {MsgAssociationsFailed}
           \cup {CatchMessage(m) :
                    m \in RejectMessages \cup {"Associations query timeout"}}

\* record l is of a pass that ended without data
EndedAbsent(l) ==
    /\ l.op = "loadUserProfile"
    /\ l.outcome # "ready"
    /\ l.stage \in {"profile", "associations"}

\* message m is one no other outcome than kind ends with
OwnMessage(m, kind) ==
    \A k \in AbsentKinds \ {kind} : m \notin MessagesOf(k)

\* C14 as stated: a pass that ends on a missing profile row, a failed
\* profile fetch, zero memberships or a failed membership fetch sets no user
\* and leaves a message that no other of the four outcomes leaves.
C14_AbsentOutcomesPairwiseDistinct ==
    [][EndedAbsent(last') =>
          /\ user' = user
          /\ profileLoadError' \in MessagesOf(KindOf(last'))
          /\ OwnMessage(profileLoadError', KindOf(last'))]_vars

\* C14, amended: such a pass sets no user and clears loading.  A missing
\* profile row and zero memberships each leave a message of their own, and
\* so does a fetch that the provider answers with an error result (one
\* message per fetch).  A fetch that rejects or runs into its timeout
\* leaves the message of the catch block for that kind of failure
\* (timeout, network, other), the same for the profile fetch and the
\* membership fetch.
C14_AbsentDataNamed ==
    [][EndedAbsent(last') =>
          /\ user' = user
          /\ ~loading'
          /\ profileLoadError' \in MessagesOf(KindOf(last'))
          /\ last'.outcome \in {"profile_missing", "tenant_missing"} =>
                OwnMessage(profileLoadError', KindOf(last'))
          /\ last'.answer = "error" =>
                OwnMessage(profileLoadError', KindOf(last'))
          /\ last'.answer = "timeout" => profileLoadError' = MsgTimeout
          /\ last'.answer = "reject" =>
                /\ profileLoadError' \in {MsgNetwork, MsgGeneric}
                /\ profileLoadError' \in MessagesOf("profile_failed")
                /\ profileLoadError' \in MessagesOf("memberships_failed")]_vars

\* the first pass has ended on zero memberships: 'No associations found',
\* no user
C14_Witness ==
    /\ EndedAbsent(last)
    /\ last.outcome = "tenant_missing"
    /\ profileLoadError = MsgNoAssociations
    /\ user = NoUser
    /\ ~loading


\* record l is of a pass whose profile fetch ran into its 5 s timeout
ProfileTimedOut(l) ==
    /\ l.op = "loadUserProfile"
    /\ l.stage = "profile"
    /\ l.answer = "timeout"

\* the messages a pass leaves when it ends otherwise than on a timeout
OtherMessages ==
    {MsgNoProfile, MsgProfileFailed, MsgAssociationsFailed, MsgNoAssociations,
     MsgAbsolute, Null}
    \cup {CatchMessage(m) : m \in RejectMessages}

\* C15: a pass whose profile fetch runs into its own timeout ends there,
\* before the 15 s ceiling is due and with the ceiling's timer still
\* pending: it leaves the timeout message, which no other ending leaves,
\* clears loading, sets no user, and issues neither the membership nor the
\* role fetch.
C15_ProfileTimeoutEndsPass ==
    [][ProfileTimedOut(last') =>
          /\ pass.pc = "profile"
          /\ pass.absoluteArmed
          /\ pass.stageAt + QUERY_TIMEOUT_MS < ABSOLUTE_TIMEOUT_MS
          /\ pass' = IdlePass
          /\ ~loading'
          /\ user' = user
          /\ pass.caller = "init" => user' = NoUser
          /\ last'.outcome = "timeout"
          /\ profileLoadError' = MsgTimeout
          /\ profileLoadError' \notin OtherMessages]_vars

\* the profile fetch of the first pass has timed out
C15_Witness ==
    /\ ProfileTimedOut(last)
    /\ initPc = "done"
    /\ user = NoUser
    /\ ~loading
    /\ profileLoadError = MsgTimeout
    /\ pass = IdlePass


\* C16: whichever provider call never answers, loading is cleared again
\* whenever it is set: the session check ends with its 8 s timer, and a
\* load pass ends with the 5 s timer of the fetch it waits for, which runs
\* out no later than the 15 s ceiling set at the entry of the pass.
C16_LoadingEventuallyCleared ==
    /\ [](InFlight => pass.stageAt + QUERY_TIMEOUT_MS <= ABSOLUTE_TIMEOUT_MS)
    /\ loading ~> ~loading

\* the profile and the memberships each came as their timers were running
\* out, the role fetch is unanswered, and the ceiling has cleared loading
C16_Witness ==
    /\ last.op = "absoluteTimeout"
    /\ pass.pc = "roles"
    /\ pass.stageAt + QUERY_TIMEOUT_MS = ABSOLUTE_TIMEOUT_MS
    /\ ~loading
    /\ profileLoadError = MsgAbsolute


\* the session has moved on from the running pass: loading, which the pass
\* set at its entry, has been cleared while the pass still waits for a
\* fetch; only the 15 s ceiling and clearAuthState do that
MovedOn == InFlight /\ ~loading

\* record l is of a step of loadUserProfile that follows on an answer to
\* one of its fetches
AnswerStep(l) ==
    l.op \in {"profileLoaded", "associationsLoaded", "loadUserProfile"}

\* C17: once the session has moved on from a load pass (its ceiling has
\* fired, or signOut has set the session to unauthenticated), an answer to
\* a fetch of that pass changes none of user, loading and the load error;
\* no user reappears after sign-out.
C17_LateResponseIgnored ==
    [][(MovedOn /\ AnswerStep(last')) =>
          /\ user' = user
          /\ loading' = loading
          /\ profileLoadError' = profileLoadError]_vars

\* C17, the case of sign-out: with no user and loading cleared while a pass
\* still waits for a fetch, an answer to that fetch sets no user.
C17_NoUserAfterSignOut ==
    [][(MovedOn /\ user = NoUser /\ AnswerStep(last')) => user' = NoUser]_vars


\* the last step was a switchAssociation call whose write of the stored id
\* failed (setItem threw)
WriteFailed(l) == l.op = "switchAssociation" /\ l.outcome = "rejected"

\* C19: a switchAssociation(X) whose write of 'currentAssociationId' fails
\* commits nothing: the user, and with it the current association, is as
\* before the call, the stored id is as before, and if the two agreed
\* before the call they agree after it; the failure reaches the caller.
C19_FailedWriteNotCommitted ==
    [][WriteFailed(last') =>
          /\ user # NoUser
          /\ FindById(user.associations, last'.id) # Undefined
          /\ user' = user
          /\ user'.currentAssociation = user.currentAssociation
          /\ localStorage' = localStorage
          /\ lastSwitch' = lastSwitch
          /\ (user.currentAssociation.id = localStorage =>
                 user'.currentAssociation.id = localStorage')]_vars

\* A is current and stored; a switch to B, one of the user's associations,
\* has failed on its write
C19_Witness ==
    /\ WriteFailed(last)
    /\ last.id = "B"
    /\ user # NoUser
    /\ FindById(user.associations, "B") # Undefined
    /\ user.currentAssociation.id = "A"
    /\ localStorage = "A"


\* C20: a user is set only by a load pass that has loaded a profile row and
\* at least one active membership, and a user that is set has both and a
\* current association among its memberships.  A session check that finds
\* no session ends unauthenticated; a pass that finds no profile row ends
\* in profile_missing and one that finds no membership in tenant_missing,
\* each with its message, loading cleared and no user set by it.
C20_ReadyOnlyWithProfileAndMembership ==
    /\ [](user # NoUser =>
             /\ user.profile = ProfileRow
             /\ Len(user.associations) >= 1
             /\ user.currentAssociation \in Elements(user.associations))
    /\ [][(user' # NoUser /\ user' # user /\ last'.op # "switchAssociation") =>
             /\ last'.op = "loadUserProfile"
             /\ last'.outcome = "ready"
             /\ pass.pc = "roles"
             /\ pass.profile = ProfileRow
             /\ Len(pass.associations) >= 1]_vars
    /\ [][(last'.op = "sessionNone" /\ last'.outcome = "no_session") =>
             /\ user' = NoUser
             /\ ~loading'
             /\ profileLoadError' = Null
             /\ ~InFlight']_vars
    /\ [][(last'.op = "loadUserProfile"
           /\ last'.outcome \in {"profile_missing", "tenant_missing"}) =>
             /\ user' = user
             /\ pass.caller = "init" => user' = NoUser
             /\ ~loading'
             /\ last'.stage = (IF last'.outcome = "profile_missing"
                               THEN "profile" ELSE "associations")
             /\ profileLoadError' = (IF last'.outcome = "profile_missing"
                                     THEN MsgNoProfile ELSE MsgNoAssociations)]_vars

\* the first pass has found a profile row and no membership for an identity
\* with a stored association id: tenant_missing, no user
C20_Witness ==
    /\ last.op = "loadUserProfile"
    /\ last.outcome = "tenant_missing"
    /\ last.stage = "associations"
    /\ localStorage # Null
    /\ user = NoUser
    /\ initPc = "done"


\* the handler has answered a request for which it had created an identity
\* with another status than 200
FailedAfterCreate ==
    /\ handler.pc = "responded"
    /\ handler.created # Null
    /\ handler.status # 200

\* C18: whenever the create-user function answers with a non-success
\* status after it has created the identity, that identity no longer
\* exists, and no identity is left without profile and membership.
C18_CreateUserAtomic ==
    FailedAfterCreate =>
        /\ handler.created \notin authUsers
        /\ authUsers \subseteq userProfiles

\* a pass has ended at one of its fetches on a failure or a timeout
FetchFailed ==
    /\ last.op = "loadUserProfile"
    /\ last.outcome # "ready"

\* C21: within one load pass the three fetches are strictly ordered: the
\* membership fetch is issued only after the profile fetch returned a
\* profile, the role fetch only after the membership fetch returned at
\* least one membership, and no later fetch is issued once an earlier one
\* failed or timed out (the pass is over, its next fetch is that of a new
\* pass, which starts at the profile).
C21_FetchesOrdered ==
    [][/\ (pass'.pc = "profile" /\ pass.pc # "profile") =>
             pass.pc = "idle"
       /\ (pass'.pc = "associations" /\ pass.pc # "associations") =>
             /\ pass.pc = "profile"
             /\ last'.op = "profileLoaded"
             /\ pass'.profile = ProfileRow
       /\ (pass'.pc = "roles" /\ pass.pc # "roles") =>
             /\ pass.pc = "associations"
             /\ last'.op = "associationsLoaded"
             /\ pass'.profile = ProfileRow
             /\ Len(pass'.associations) >= 1
       /\ (FetchFailed' /\ InFlight) =>
             /\ pass'.pc = "idle"
             /\ last'.stage = pass.pc]_vars

\* the role fetch of a pass is out, after the profile fetch has answered a
\* profile and the membership fetch two memberships
C21_Witness ==
    /\ pass.pc = "roles"
    /\ pass.profile = ProfileRow
    /\ Len(pass.associations) = 2
    /\ last.op = "associationsLoaded"

\* no element occurs twice in s
NoDuplicates(s) == \A i, j \in 1..Len(s) : s[i] = s[j] => i = j

\* C22: the flattened permission list stored on the user after a load pass
\* has no duplicates and has exactly the elements of the union of the
\* permission lists of all roles returned for the user.
C22_PermissionsAreUnion ==
    user # NoUser =>
        /\ NoDuplicates(user.permissions)
        /\ Elements(user.permissions) =
               UNION {Elements(user.roles[i].permissions) :
                         i \in 1..Len(user.roles)}

\* a pass has ended ready with two roles that both grant view_violations:
\* three granted permissions, two stored
C22_Witness ==
    /\ last.op = "loadUserProfile"
    /\ last.outcome = "ready"
    /\ user # NoUser
    /\ Len(user.roles) = 2
    /\ Len(FlatMapPermissions(user.roles)) = 3
    /\ Len(user.permissions) = 2

\* the provider calls a step of useViolations sends
IssuedCalls == violationCalls' \ violationCalls

\* C23: every violations read, insert, update and delete issued by
\* useViolations is scoped to the association that is current at the moment
\* of the call.
C23_CallsScopedToCurrent ==
    [][\A call \in IssuedCalls :
          /\ user' # NoUser
          /\ call.scope = user'.currentAssociation.id]_vars

\* the part of C23 that holds: an insert, update or delete is scoped to the
\* association that is current when it is sent, and the provider writes no
\* row of another association than the one the call is scoped to
C23_WritesScopedToCurrent ==
    [][/\ \A call \in IssuedCalls :
             call.op # "load" => call.scope = user'.currentAssociation.id
       /\ \A r \in (violationRows' \ violationRows) \cup (violationRows \ violationRows') :
             \E call \in violationCalls \ violationCalls' :
                /\ call.op # "load"
                /\ call.scope = r.association_id]_vars

\* no select of the hook is in flight
NoLoadInFlight == \A call \in violationCalls : call.op # "load"

\* C28: once no violation load is in flight, the in-memory violations
\* list contains only violations of the current association.
C28_ListOfCurrentAssociation ==
    (user # NoUser /\ NoLoadInFlight) =>
        \A i \in 1..Len(violations) :
            violations[i].association_id = user.currentAssociation.id

\* C24: addUserToAssociation and handleAssociationChange never create a
\* second membership row for a pair of identity and association that
\* already has one, under any interleaving of concurrent calls for the pair.
C24_NoSecondMembership ==
    \A a \in AssociationIds : membershipRows[a] <= 1

\* the role writes a step of useRoles sends
IssuedRoleCalls == roleCalls' \ roleCalls

\* the rows of the roles table a step changes or deletes
TouchedRoles == roleRows \ roleRows'

\* C29: useRoles sends a role write only when hasPermission('manage_roles')
\* holds for the current association, and the write is scoped to that
\* association; otherwise the call fails with 'Insufficient permissions'
\* and changes nothing; and every row an update or delete changes is a
\* non-system role owned by the association that was current at the call.
C29_RoleWritesGuarded ==
    [][/\ \A call \in IssuedRoleCalls :
             /\ hasPermission("manage_roles")
             /\ call.scope = user.currentAssociation.id
       /\ (roleLast' # roleLast /\ roleLast'.outcome = "Insufficient permissions") =>
             /\ ~hasPermission("manage_roles")
             /\ UNCHANGED <<roleRows, roleCalls>>
       /\ (roleLast' # roleLast /\ roleLast'.outcome = "sent") =>
             hasPermission("manage_roles")
       /\ \A r \in TouchedRoles :
             /\ ~r.is_system_role
             /\ \E call \in roleCalls \ roleCalls' :
                   /\ call.op \in {"updateRole", "deleteRole"}
                   /\ call.id = r.id
                   /\ call.scope = r.association_id]_vars

\* the role of A was deleted by a call sent while A was current; the system
\* role and the role of B, which deleteRole was also called for, are there
C29_Witness ==
    /\ roleLast = [op |-> "deleteRole", outcome |-> "done"]
    /\ RoleRow(RoleA) \notin roleRows
    /\ RoleRow(RoleSystem) \in roleRows
    /\ RoleRow(RoleB) \in roleRows
    /\ user.currentAssociation.id = "B"
    /\ ~hasPermission("manage_roles")

\* C25: after initialization has completed without a session, a successful
\* sign-in is processed by the auth-state listener, which starts a profile
\* load, and a SIGNED_OUT event received after initialization clears the
\* user.
C25_ListenerProcessesEvents ==
    [][/\ (authInitialized /\ signInPending /\ ~signInPending'
             /\ last'.op = "signIn" /\ last'.outcome = "signed_in")
          => (InFlight' /\ loading')
       /\ (authInitialized /\ last'.op = "SIGNED_OUT")
          => user' = NoUser]_vars

\* C26: over every interleaving of load passes, refetchUser,
\* switchAssociation and signOut, whenever the user is non-null its current
\* association is one of the associations of its own association list.
C26_CurrentIsOwnAssociation ==
    user # NoUser => user.currentAssociation \in Elements(user.associations)

\* a user has switched while a load pass was at its role fetch, and the
\* pass has then set the user it had built: the current association is
\* the one the pass had picked from the list it had loaded
C26_Witness ==
    /\ Ready
    /\ ~last.stable
    /\ user # NoUser
    /\ lastSwitch # Null
    /\ user.currentAssociation.id # lastSwitch
    /\ user.currentAssociation \in Elements(user.associations)

\* C27: whenever the session is ready with no load pass in flight and the
\* stored 'currentAssociationId' names one of the user's associations, the
\* stored id is the id of the user's current association; also when
\* switchAssociation runs while a refetchUser load pass is in flight.
C27_StoredIdIsCurrent ==
    (/\ user # NoUser
     /\ ~loading
     /\ profileLoadError = Null
     /\ ~InFlight
     /\ \E a \in Elements(user.associations) : a.id = localStorage)
        => localStorage = user.currentAssociation.id

\* C30: signUp leaves no orphan: it returns { error: null } only if the
\* identity and its profile and membership were all created, and whenever
\* it returns an error after the provider created the identity, that
\* identity does not remain without a profile.
C30_SignUpLeavesNoOrphan ==
    (signUpOp.pc = "idle" /\ signUpOp.result # "none") =>
        /\ signUpOp.result = "ok" =>
              /\ signUpOp.created \in authUsers
              /\ signUpOp.created \in userProfiles
        /\ (signUpOp.result = "error" /\ signUpOp.created # Null) =>
              ~(/\ signUpOp.created \in authUsers
                /\ signUpOp.created \notin userProfiles)

\* signUp returns { error: null } only after the identity and its profile
\* and membership were created
C30_NullErrorOnlyIfCreated ==
    (signUpOp.pc = "idle" /\ signUpOp.result = "ok") =>
        /\ signUpOp.created \in authUsers
        /\ signUpOp.created \in userProfiles

====
